---- MODULE Spec2Model ----
(***************************************************************************)
(* The generation loop of ModEA (code/Algorithms.py): baseAlgorithm and    *)
(* the population-size clamp of customizedES.                              *)
(*                                                                         *)
(* An individual is represented by its fitness (lower is better).  The     *)
(* injected functions recombine / select / mutateParameters and the        *)
(* Parameters object live in modules that are not part of Algorithms.py;   *)
(* they are modelled by their documented contract.  The outputs            *)
(* generation_size and parameters.tpa_result are written by the loop but   *)
(* never read by it and are left out.  Spec holds the non-parallel runs,   *)
(* SpecPar the runs with parallel evaluation.  SpecObj follows the same    *)
(* loop with an individual represented as a record of its object          *)
(* identity, the identity of its dna buffer and its fitness.               *)
(***************************************************************************)
EXTENDS Integers, Sequences, FiniteSets, TLC

\* ---------------------------------------------------------------- bounds
MaxBudget == 5      \* budgets 1..MaxBudget
MaxLambda == 4      \* initial offspring counts 1..MaxLambda
MaxFit    == 1      \* fitness values 0..MaxFit
MaxIter   == 2      \* parameters.max_iter in 1..MaxIter
MaxReq    == 7      \* requested lambda / mu in 1..MaxReq (customizedES)
MaxObjBudget == 3   \* budgets 1..MaxObjBudget of the object-identity runs
MaxObjLambda == 2   \* initial offspring counts of the object-identity runs

\* a restart may grow lambda_ up to LambdaCap
LambdaCap == 2 * MaxLambda
Fitness == 0 .. MaxFit
\* fitness of an individual that has not been evaluated yet
Inf == MaxFit + 1
\* the local i of baseAlgorithm before the first for-loop iteration bound it
Unbound == -1
\* parameters.sigma_mean, kept abstract (one value)
sigma_mean == 1

VARIABLES
    \* ---- arguments / Parameters fields
    budget, lambda_, mu, sequential, tpa, ipop, elitist, seq_cutoff, max_iter,
    last_pop, parallel, selection,
    \* ---- locals of baseAlgorithm
    pc, error, used_budget, used_budget_at_last_restart, restart_budget,
    improvement_found, population, new_population, best_individual, i, it,
    sigma_over_time, best_fitness_over_time,
    \* ---- observation (history) variables
    fitness_calls, generations, restarts, gen_flag0, gen_budget0, gen_len0,
    reported

params == <<budget, lambda_, mu, sequential, tpa, ipop, elitist, seq_cutoff,
            max_iter, last_pop, parallel, selection>>
locals == <<pc, error, used_budget, used_budget_at_last_restart, restart_budget,
            improvement_found, population, new_population, best_individual, i,
            it, sigma_over_time, best_fitness_over_time>>
history == <<fitness_calls, generations, restarts, gen_flag0, gen_budget0,
             gen_len0, reported>>
vars == <<params, locals, history>>

\* ------------------------------------------------------------- helpers
Min(a, b) == IF a < b THEN a ELSE b
Max(a, b) == IF a > b THEN a ELSE b

\* Python slice s[:n] for n >= 0
Take(s, n) == SubSeq(s, 1, Min(n, Len(s)))
\* Python slice s[:-2]
DropLast2(s) == SubSeq(s, 1, Len(s) - 2)
\* Python  [v] * n  (empty for n <= 0)
Repeat(v, n) == [k \in 1 .. n |-> v]

RECURSIVE Insert(_, _)
Insert(x, s) ==
    IF s = << >> THEN << x >>
    ELSE IF x <= Head(s) THEN << x >> \o s
    ELSE << Head(s) >> \o Insert(x, Tail(s))

RECURSIVE Sorted(_)
\* sorted(...) ascending by fitness
Sorted(s) == IF s = << >> THEN << >> ELSE Insert(Head(s), Sorted(Tail(s)))

\* ------------------------------------------------- injected collaborators
\* recombine: lambda offspring seeds, not yet evaluated
Recombine(pop, lam) == Repeat(Inf, lam)

\* select (Sel.best): elitist sorts parents and offspring, non-elitist the
\* offspring only; the best mu of the pool are kept
Select(pop, new_pop, m, elit) ==
    Take(Sorted(IF elit THEN pop \o new_pop ELSE new_pop), m)

\* Parameters.local_restart: new population sizes for a regime
RestartLambda(lam, pop_change) ==
    IF pop_change = "large" THEN 2 * lam
    ELSE IF pop_change = "small" THEN Max(1, lam \div 2)
    ELSE lam
RestartMu(lam) == Max(1, lam \div 2)

\* ------------------------------------------------ pieces of customizedES
\* variant: the lambda_ == 0 repair is missing
PairwiseLambda_NoZeroFix(lam, tp) ==
    LET even == IF lam % 2 = 1 THEN lam - 1 ELSE lam
    IN IF tp /\ even = 2 THEN even + 2 ELSE even

\* pairwise selection: force lambda_ to be even, and >= 4 under two-point
PairwiseLambda(lam, tp) ==
    LET even == IF lam % 2 = 1
                THEN (IF lam - 1 = 0 THEN lam - 1 + 2 ELSE lam - 1)
                ELSE lam
    IN IF tp /\ even = 2 THEN even + 2 ELSE even

\* pairwise selection: mu is at most half of the effective lambda
PairwiseMu(m, lam, tp) ==
    LET eff_lambda == IF tp THEN lam - 2 ELSE lam
    IN IF m > eff_lambda \div 2 THEN eff_lambda \div 2 ELSE m

\* ------------------------------------------------ pieces of baseAlgorithm
\* variant: the loop gives up one unit early, while used_budget + 1 < budget
LoopCond_OffByOne(ub, b) == ub + 1 < b

\* while used_budget < budget
LoopCond(ub, b) == ub < b

\* variant: i > parameters.seq_cutoff
SeqBreak_Strict(idx, cutoff, found) == idx > cutoff /\ found

\* if i >= parameters.seq_cutoff and improvement_found
SeqBreak(idx, cutoff, found) == idx >= cutoff /\ found

\* variant: the cap is applied without looking at sequential_evaluation
TPABudget_CapAlways(ub, b, seq) == IF ub + 2 > b THEN b ELSE ub + 2

\* variant: the cap is missing
TPABudget_NoCap(ub, b, seq) == ub + 2

\* used_budget += 2; if used_budget > budget and sequential_evaluation: used_budget = budget
TPABudget(ub, b, seq) == IF ub + 2 > b /\ seq THEN b ELSE ub + 2

\* variant: the trace records the best offspring, fitnesses[0]
TraceValue_BestOffspring(pop, fitnesses) ==
    IF fitnesses = << >> THEN pop[1] ELSE fitnesses[1]

\* the value the best-fitness trace is extended with
TraceValue(pop, fitnesses) == pop[1]

\* variant: the remaining-budget test of the small regime is missing
PopChange_IgnoresBudget(mode, last, since, remaining) ==
    IF mode = "BIPOP" /\ last = "large" THEN "small"
    ELSE IF mode \in {"IPOP", "BIPOP"} THEN "large"
    ELSE "None"

\* the (B)IPOP regime chosen on a restart
PopChange(mode, last, since, remaining) ==
    IF mode = "BIPOP" /\ last = "large" /\ since \div 2 < remaining THEN "small"
    ELSE IF mode \in {"IPOP", "BIPOP"} THEN "large"
    ELSE "None"

\* variant: the growing regime also takes half of the budget used since the restart
RestartBudget_AlwaysHalves(pop_change, since, iters, lam, old) ==
    IF pop_change \in {"small", "large"} THEN since \div 2 ELSE old

\* restart_budget after a restart that chose pop_change
RestartBudget(pop_change, since, iters, lam, old) ==
    IF pop_change = "small" THEN since \div 2
    ELSE IF pop_change = "large" THEN iters * lam
    ELSE old

\* variant: the mark is reset to zero
RestartMark_Reset(ub) == 0

\* used_budget_at_last_restart = used_budget
RestartMark(ub) == ub

\* non-parallel, sequential_evaluation: the for loop over the offspring
\* fitnesses in order, from 0-based index idx on; yields i, used_budget and
\* the flag at the point the loop is left
RECURSIVE SequentialPath(_, _, _, _, _, _, _)
SequentialPath(fits, idx, ub, found, best, cutoff, b) ==
    IF idx >= Len(fits) THEN [i |-> idx - 1, used_budget |-> ub, improvement_found |-> found]
    ELSE LET ub1 == ub + 1
             f1  == IF fits[idx + 1] < best THEN TRUE ELSE found
         IN IF SeqBreak(idx, cutoff, f1)
            THEN [i |-> idx, used_budget |-> ub1, improvement_found |-> FALSE]
            ELSE IF ub1 = b
            THEN [i |-> idx, used_budget |-> ub1, improvement_found |-> f1]
            ELSE SequentialPath(fits, idx + 1, ub1, f1, best, cutoff, b)

\* variant: after i > parameters.seq_cutoff in the replay
ReplayBreak_Strict(idx, cutoff, found) == idx > cutoff /\ found

\* parallel replay: if i >= parameters.seq_cutoff and improvement_found
ReplayBreak(idx, cutoff, found) == idx >= cutoff /\ found

\* parallel, sequential_evaluation: the bookkeeping loop over the evaluated
\* offspring, from 0-based index idx on; yields i, used_budget and the flag
RECURSIVE ReplayPath(_, _, _, _, _, _, _)
ReplayPath(fits, idx, ub, found, best, cutoff, b) ==
    IF idx >= Len(fits) THEN [i |-> idx - 1, used_budget |-> ub, improvement_found |-> found]
    ELSE LET ub1 == ub + 1
             f1  == IF fits[idx + 1] < best THEN TRUE ELSE found
         IN IF ReplayBreak(idx, cutoff, f1)
            THEN [i |-> idx, used_budget |-> ub1, improvement_found |-> FALSE]
            ELSE IF ub1 = b
            THEN [i |-> idx, used_budget |-> ub1, improvement_found |-> f1]
            ELSE ReplayPath(fits, idx + 1, ub1, f1, best, cutoff, b)

\* variant: the order the phases would have with recombination last
NextPhase_RecombineLast(phase) ==
    CASE phase = "track"     -> "adapt"
      [] phase = "adapt"     -> "tpa"
      [] phase = "tpa"       -> "restart"
      [] phase = "restart"   -> "recombine"
      [] phase = "recombine" -> "while"

\* the statement order of the loop body after the tracking block
NextPhase(phase) ==
    CASE phase = "track"     -> "recombine"
      [] phase = "recombine" -> "tpa"
      [] phase = "tpa"       -> "adapt"
      [] phase = "adapt"     -> "restart"
      [] phase = "restart"   -> "while"

\* ------------------------------------------------------------------ Init
\* State on reaching the while loop of baseAlgorithm for the first time:
\* the trackers are empty, the counters zero, one recombination done.
Init ==
    /\ budget \in 1 .. MaxBudget
    /\ lambda_ \in 1 .. MaxLambda
    /\ mu \in 1 .. lambda_
    /\ sequential \in BOOLEAN
    /\ tpa \in BOOLEAN
    /\ ipop \in {"None", "IPOP", "BIPOP"}
    /\ elitist \in BOOLEAN
    \* seq_cutoff is mu, or 2*mu when customizedES set it for sequential runs
    /\ seq_cutoff \in (IF sequential THEN {mu, 2 * mu} ELSE {mu})
    \* max_iter is read by the restart code only
    /\ max_iter \in (IF ipop = "None" THEN {1} ELSE 1 .. MaxIter)
    /\ last_pop = "None"
    /\ parallel = FALSE
    /\ selection = "best"
    /\ pc = "while"
    /\ error = "none"
    /\ used_budget = 0
    /\ used_budget_at_last_restart = 0
    /\ restart_budget = max_iter
    /\ improvement_found = FALSE
    /\ population = Repeat(Inf, mu)
    /\ new_population = Recombine(population, lambda_)
    /\ best_individual = population[1]
    /\ i = Unbound
    /\ it = 0
    /\ sigma_over_time = << >>
    /\ best_fitness_over_time = << >>
    /\ fitness_calls = 0
    /\ generations = 0
    /\ restarts = 0
    /\ gen_flag0 = FALSE
    /\ gen_budget0 = 0
    /\ gen_len0 = 0
    /\ reported = 0

\* --------------------------------------------------------------- actions
\* while used_budget < budget:  (and the TPA trim at the top of the body)
While ==
    /\ pc = "while"
    /\ IF LoopCond(used_budget, budget)
       THEN LET trimmed == IF tpa THEN DropLast2(new_population) ELSE new_population
            IN /\ new_population' = trimmed
               /\ pc' = IF Len(trimmed) = 0 /\ ~parallel THEN "select" ELSE "eval"
               /\ generations' = generations + 1
               /\ gen_flag0' = improvement_found
               /\ gen_budget0' = used_budget
               /\ gen_len0' = Len(trimmed)
       ELSE /\ pc' = "done"
            /\ UNCHANGED <<new_population, generations, gen_flag0, gen_budget0, gen_len0>>
    /\ it' = 0
    /\ UNCHANGED <<params, error, used_budget, used_budget_at_last_restart,
                   restart_budget, improvement_found, population, best_individual,
                   i, sigma_over_time, best_fitness_over_time, fitness_calls,
                   restarts, reported>>

\* one iteration of  for i, individual in enumerate(new_population)
\* (non-parallel): mutate, evaluate, count, sequential checks
Evaluate ==
    /\ pc = "eval"
    /\ ~parallel
    /\ it < Len(new_population)
    /\ \E f \in Fitness :
         LET ub    == used_budget + 1
             found == IF sequential /\ f < best_individual THEN TRUE ELSE improvement_found
             stop  == sequential /\ SeqBreak(it, seq_cutoff, found)
             spent == sequential /\ ~stop /\ ub = budget
             last  == it + 1 = Len(new_population)
         IN /\ new_population' = [new_population EXCEPT ![it + 1] = f]
            /\ i' = it
            /\ used_budget' = ub
            /\ fitness_calls' = fitness_calls + 1
            /\ improvement_found' = IF stop THEN FALSE ELSE found
            /\ IF stop \/ spent \/ last
               THEN pc' = "select" /\ it' = 0
               ELSE pc' = "eval" /\ it' = it + 1
    /\ UNCHANGED <<params, error, used_budget_at_last_restart, restart_budget,
                   population, best_individual, sigma_over_time,
                   best_fitness_over_time, generations, restarts, gen_flag0,
                   gen_budget0, gen_len0, reported>>

\* parallel: every offspring is mutated and evaluated (p.map or the MPI
\* batch), then used_budget, i and the flag are set from the results
EvaluateParallel ==
    /\ pc = "eval"
    /\ parallel
    /\ \E fits \in [1 .. Len(new_population) -> Fitness] :
         /\ new_population' = fits
         /\ fitness_calls' = fitness_calls + Len(fits)
         /\ IF sequential
            THEN LET r == ReplayPath(fits, 0, used_budget, improvement_found,
                                     best_individual, seq_cutoff, budget)
                 IN /\ used_budget' = r.used_budget
                    /\ improvement_found' = r.improvement_found
                    /\ i' = IF Len(fits) = 0 THEN i ELSE r.i
            ELSE /\ used_budget' = used_budget + lambda_
                 /\ i' = lambda_
                 /\ improvement_found' = improvement_found
    /\ pc' = "select"
    /\ it' = 0
    /\ UNCHANGED <<params, error, used_budget_at_last_restart, restart_budget,
                   population, best_individual, sigma_over_time,
                   best_fitness_over_time, generations, restarts, gen_flag0,
                   gen_budget0, gen_len0, reported>>

\* new_population = new_population[:i+1]; population = select(...)
SelectStep ==
    /\ pc = "select"
    /\ IF i = Unbound
       THEN /\ pc' = "crashed"
            /\ error' = "NameError"
            /\ UNCHANGED <<new_population, population>>
       ELSE LET kept == Take(new_population, i + 1)
            IN /\ new_population' = kept
               /\ population' = Select(population, kept, mu, elitist)
               /\ pc' = "track"
               /\ error' = error
    /\ UNCHANGED <<params, used_budget, used_budget_at_last_restart, restart_budget,
                   improvement_found, best_individual, i, it, sigma_over_time,
                   best_fitness_over_time, history>>

\* Track parameters, update the best individual, stop when the budget is reached
Track ==
    /\ pc = "track"
    /\ IF Len(population) = 0
       THEN /\ pc' = "crashed"
            /\ error' = "IndexError"
            /\ UNCHANGED <<sigma_over_time, best_fitness_over_time, best_individual>>
       ELSE /\ sigma_over_time' = sigma_over_time \o
                   Repeat(sigma_mean, used_budget - Len(sigma_over_time))
            /\ best_fitness_over_time' = best_fitness_over_time \o
                   Repeat(TraceValue(population, Sorted(new_population)),
                          used_budget - Len(best_fitness_over_time))
            /\ best_individual' = IF population[1] < best_individual
                                  THEN population[1] ELSE best_individual
            /\ pc' = IF used_budget >= budget THEN "done" ELSE NextPhase("track")
            /\ error' = error
    /\ UNCHANGED <<params, used_budget, used_budget_at_last_restart, restart_budget,
                   improvement_found, population, new_population, i, it, history>>

\* recombination, or the 'Bad population size!' report
RecombineStep ==
    /\ pc = "recombine"
    /\ IF Len(population) = mu
       THEN new_population' = Recombine(population, lambda_) /\ reported' = reported
       ELSE new_population' = new_population /\ reported' = reported + 1
    /\ pc' = NextPhase("recombine")
    /\ UNCHANGED <<params, error, used_budget, used_budget_at_last_restart,
                   restart_budget, improvement_found, population, best_individual,
                   i, it, sigma_over_time, best_fitness_over_time, fitness_calls,
                   generations, restarts, gen_flag0, gen_budget0, gen_len0>>

\* Two-Point step-size Adaptation: two probe evaluations
TPAStep ==
    /\ pc = "tpa"
    /\ IF tpa
       THEN /\ fitness_calls' = fitness_calls + 2
            /\ used_budget' = TPABudget(used_budget, budget, sequential)
       ELSE UNCHANGED <<fitness_calls, used_budget>>
    /\ pc' = NextPhase("tpa")
    /\ UNCHANGED <<params, error, used_budget_at_last_restart, restart_budget,
                   improvement_found, population, new_population, best_individual,
                   i, it, sigma_over_time, best_fitness_over_time, generations,
                   restarts, gen_flag0, gen_budget0, gen_len0, reported>>

\* mutateParameters(used_budget)
MutateParameters ==
    /\ pc = "adapt"
    /\ pc' = NextPhase("adapt")
    /\ UNCHANGED <<params, error, used_budget, used_budget_at_last_restart,
                   restart_budget, improvement_found, population, new_population,
                   best_individual, i, it, sigma_over_time, best_fitness_over_time,
                   history>>

\* (B)IPOP restart check
RestartCheck ==
    /\ pc = "restart"
    /\ pc' = NextPhase("restart")
    /\ \E test \in BOOLEAN :   \* parameters.ipopTest(used_budget, fitnesses)
         LET since      == used_budget - used_budget_at_last_restart
             restart    == ipop # "None" /\ (since > restart_budget \/ test)
             pop_change == PopChange(ipop, last_pop, since, budget - used_budget)
             lam        == RestartLambda(lambda_, pop_change)
         IN IF restart
            THEN /\ lam <= LambdaCap
                 /\ used_budget_at_last_restart' = RestartMark(used_budget)
                 /\ restart_budget' = RestartBudget(pop_change, since, max_iter,
                                                    lambda_, restart_budget)
                 /\ lambda_' = lam
                 /\ mu' = RestartMu(lam)
                 /\ last_pop' = pop_change
                 /\ restarts' = restarts + 1
            ELSE UNCHANGED <<used_budget_at_last_restart, restart_budget, lambda_,
                             mu, last_pop, restarts>>
    /\ UNCHANGED <<budget, sequential, tpa, ipop, elitist, seq_cutoff, max_iter,
                   parallel, selection, error, used_budget, improvement_found,
                   population, new_population, best_individual, i, it,
                   sigma_over_time, best_fitness_over_time, fitness_calls,
                   generations, gen_flag0, gen_budget0, gen_len0, reported>>

Next ==
    \/ While
    \/ Evaluate
    \/ SelectStep
    \/ Track
    \/ RecombineStep
    \/ TPAStep
    \/ MutateParameters
    \/ RestartCheck

Spec == Init /\ [][Next]_vars

\* ------------------------------------------------- object identity
\* In SpecObj an individual is [obj, dna, fitness]: obj names the Individual
\* object, dna names the array object its dna attribute is bound to.  Two
\* records with the same obj are one Python object.  TPA, sequential and
\* parallel evaluation are off; the traces and counters are those of Spec
\* and are held fixed here.
ObjsOf(s) == {s[k].obj : k \in DOMAIN s}
DnasOf(s) == {s[k].dna : k \in DOMAIN s}

\* the least identity not in use
NextFree(used) ==
    CHOOSE x \in 1 .. Cardinality(used) + 1 :
        x \notin used /\ \A y \in 1 .. x - 1 : y \in used

\* n identities not in use, least first
RECURSIVE FreshIds(_, _)
FreshIds(used, n) ==
    IF n <= 0 THEN << >>
    ELSE LET x == NextFree(used) IN <<x>> \o FreshIds(used \cup {x}, n - 1)

\* copy(individual): a new Individual with a copy of the dna array
copy(ind, objs, dnas) ==
    [obj |-> NextFree(objs), dna |-> NextFree(dnas), fitness |-> ind.fitness]

\* recombine(population, ...): lam new Individuals, each with its own dna
RecombineObj(lam, objs, dnas) ==
    LET os == FreshIds(objs, lam)
        ds == FreshIds(dnas, lam)
    IN [k \in 1 .. lam |-> [obj |-> os[k], dna |-> ds[k], fitness |-> Inf]]

\* mutate(individual): the individual is changed in place; its dna attribute
\* keeps its array (written in place) or is bound to a new array
Mutate(ind, rebind, dnas) ==
    IF rebind THEN [ind EXCEPT !.dna = NextFree(dnas)] ELSE ind

\* insertion of an individual into a list ordered by fitness (stable)
RECURSIVE InsertObj(_, _)
InsertObj(ind, s) ==
    IF s = << >> THEN <<ind>>
    ELSE IF ind.fitness < s[1].fitness THEN <<ind>> \o s
    ELSE <<s[1]>> \o InsertObj(ind, Tail(s))

RECURSIVE SortedObj(_)
SortedObj(s) ==
    IF s = << >> THEN << >>
    ELSE InsertObj(s[Len(s)], SortedObj(SubSeq(s, 1, Len(s) - 1)))

\* select(population, new_population, used_budget): the mu best, the same objects
SelectObj(pop, new_pop, m, elit) ==
    Take(SortedObj(IF elit THEN pop \o new_pop ELSE new_pop), m)

\* the parents passed in: customizedES binds every parent's dna to
\* parameters.wcm (shared = TRUE); another caller may give each its own array
InitialParents(m, shared) ==
    [k \in 1 .. m |-> [obj |-> k, dna |-> IF shared THEN 1 ELSE k, fitness |-> Inf]]

InitObj ==
    /\ budget \in 1 .. MaxObjBudget
    /\ lambda_ \in 1 .. MaxObjLambda
    /\ mu \in 1 .. lambda_
    /\ sequential = FALSE
    /\ tpa = FALSE
    /\ ipop \in {"None", "IPOP"}
    /\ elitist \in BOOLEAN
    /\ seq_cutoff = mu
    /\ max_iter = 1
    /\ last_pop = "None"
    /\ parallel = FALSE
    /\ selection = "best"
    /\ pc = "while"
    /\ error = "none"
    /\ used_budget = 0
    /\ used_budget_at_last_restart = 0
    /\ restart_budget = max_iter
    /\ improvement_found = FALSE
    /\ \E shared \in BOOLEAN : population = InitialParents(mu, shared)
    /\ best_individual = population[1]
    /\ new_population = RecombineObj(lambda_, ObjsOf(population), DnasOf(population))
    /\ i = Unbound
    /\ it = 0
    /\ sigma_over_time = << >>
    /\ best_fitness_over_time = << >>
    /\ fitness_calls = 0
    /\ generations = 0
    /\ restarts = 0
    /\ gen_flag0 = FALSE
    /\ gen_budget0 = 0
    /\ gen_len0 = 0
    /\ reported = 0

fixedObj == <<budget, sequential, tpa, ipop, elitist, seq_cutoff, max_iter,
              parallel, selection, error, improvement_found, it,
              sigma_over_time, best_fitness_over_time, gen_flag0, gen_budget0,
              gen_len0, reported>>

\* while used_budget < budget:
WhileObj ==
    /\ pc = "while"
    /\ pc' = IF LoopCond(used_budget, budget) THEN "eval" ELSE "done"
    /\ i' = Unbound
    /\ UNCHANGED <<fixedObj, lambda_, mu, last_pop, used_budget,
                   used_budget_at_last_restart, restart_budget, population,
                   new_population, best_individual, fitness_calls, generations,
                   restarts>>

\* for i, individual in enumerate(new_population): mutate, evaluate, count
EvaluateObj ==
    /\ pc = "eval"
    /\ i + 1 < Len(new_population)
    /\ \E f \in Fitness, rebind \in BOOLEAN :
         LET dnas    == DnasOf(population \o new_population) \cup {best_individual.dna}
             mutated == Mutate(new_population[i + 2], rebind, dnas)
         IN new_population' =
                [new_population EXCEPT ![i + 2] = [mutated EXCEPT !.fitness = f]]
    /\ i' = i + 1
    /\ used_budget' = used_budget + 1
    /\ fitness_calls' = fitness_calls + 1
    /\ pc' = IF i' + 1 < Len(new_population) THEN "eval" ELSE "select"
    /\ UNCHANGED <<fixedObj, lambda_, mu, last_pop, used_budget_at_last_restart,
                   restart_budget, population, best_individual, generations,
                   restarts>>

\* new_population = new_population[:i+1]; population = select(...)
SelectObjStep ==
    /\ pc = "select"
    /\ new_population' = Take(new_population, i + 1)
    /\ population' = SelectObj(population, new_population', mu, elitist)
    /\ pc' = "track"
    /\ UNCHANGED <<fixedObj, lambda_, mu, last_pop, used_budget,
                   used_budget_at_last_restart, restart_budget, best_individual,
                   i, fitness_calls, generations, restarts>>

\* if population[0].fitness < best_individual.fitness: best_individual = copy(population[0])
TrackObj ==
    /\ pc = "track"
    /\ best_individual' =
         IF population[1].fitness < best_individual.fitness
         THEN copy(population[1],
                   ObjsOf(population \o new_population) \cup {best_individual.obj},
                   DnasOf(population \o new_population) \cup {best_individual.dna})
         ELSE best_individual
    /\ generations' = generations + 1
    /\ pc' = IF used_budget >= budget THEN "done" ELSE NextPhase("track")
    /\ UNCHANGED <<fixedObj, lambda_, mu, last_pop, used_budget,
                   used_budget_at_last_restart, restart_budget, population,
                   new_population, i, fitness_calls, restarts>>

\* new_population = recombine(population, ...)
RecombineObjStep ==
    /\ pc = "recombine"
    /\ new_population' =
         IF Len(population) = mu
         THEN RecombineObj(lambda_, ObjsOf(population) \cup {best_individual.obj},
                           DnasOf(population) \cup {best_individual.dna})
         ELSE new_population
    /\ pc' = NextPhase("recombine")
    /\ UNCHANGED <<fixedObj, lambda_, mu, last_pop, used_budget,
                   used_budget_at_last_restart, restart_budget, population,
                   best_individual, i, fitness_calls, generations, restarts>>

\* the TPA block (off) and mutateParameters touch no individual
PassObj ==
    /\ pc \in {"tpa", "adapt"}
    /\ pc' = NextPhase(pc)
    /\ UNCHANGED <<fixedObj, lambda_, mu, last_pop, used_budget,
                   used_budget_at_last_restart, restart_budget, population,
                   new_population, best_individual, i, fitness_calls,
                   generations, restarts>>

\* the restart block: for ind in new_population: ind.dna = new_search_point
RestartObj ==
    /\ pc = "restart"
    /\ pc' = NextPhase("restart")
    /\ \E test \in BOOLEAN :
         LET since      == used_budget - used_budget_at_last_restart
             restart    == ipop # "None" /\ (since > restart_budget \/ test)
             pop_change == PopChange(ipop, last_pop, since, budget - used_budget)
             lam        == RestartLambda(lambda_, pop_change)
             point      == NextFree(DnasOf(population \o new_population)
                                    \cup {best_individual.dna})
         IN IF restart
            THEN /\ lam <= 2 * MaxObjLambda
                 /\ used_budget_at_last_restart' = RestartMark(used_budget)
                 /\ restart_budget' = RestartBudget(pop_change, since, max_iter,
                                                    lambda_, restart_budget)
                 /\ lambda_' = lam
                 /\ mu' = RestartMu(lam)
                 /\ last_pop' = pop_change
                 /\ restarts' = restarts + 1
                 /\ new_population' =
                      [k \in DOMAIN new_population |->
                          [new_population[k] EXCEPT !.dna = point]]
            ELSE UNCHANGED <<used_budget_at_last_restart, restart_budget, lambda_,
                             mu, last_pop, restarts, new_population>>
    /\ UNCHANGED <<fixedObj, used_budget, population, best_individual, i,
                   fitness_calls, generations>>

NextObj ==
    \/ WhileObj
    \/ EvaluateObj
    \/ SelectObjStep
    \/ TrackObj
    \/ RecombineObjStep
    \/ PassObj
    \/ RestartObj

SpecObj == InitObj /\ [][NextObj]_vars

\* ------------------------------------------------- parallel evaluation
\* baseAlgorithm called with parallel=True and parallel execution allowed
InitPar ==
    /\ budget \in 1 .. MaxBudget
    /\ lambda_ \in 1 .. MaxLambda
    /\ mu \in 1 .. lambda_
    /\ sequential \in BOOLEAN
    /\ tpa \in BOOLEAN
    /\ ipop \in {"None", "IPOP", "BIPOP"}
    /\ elitist \in BOOLEAN
    /\ seq_cutoff \in (IF sequential THEN {mu, 2 * mu} ELSE {mu})
    /\ max_iter \in (IF ipop = "None" THEN {1} ELSE 1 .. MaxIter)
    /\ last_pop = "None"
    /\ parallel = TRUE
    /\ selection = "best"
    /\ pc = "while"
    /\ error = "none"
    /\ used_budget = 0
    /\ used_budget_at_last_restart = 0
    /\ restart_budget = max_iter
    /\ improvement_found = FALSE
    /\ population = Repeat(Inf, mu)
    /\ new_population = Recombine(population, lambda_)
    /\ best_individual = population[1]
    /\ i = Unbound
    /\ it = 0
    /\ sigma_over_time = << >>
    /\ best_fitness_over_time = << >>
    /\ fitness_calls = 0
    /\ generations = 0
    /\ restarts = 0
    /\ gen_flag0 = FALSE
    /\ gen_budget0 = 0
    /\ gen_len0 = 0
    /\ reported = 0

NextPar ==
    \/ While
    \/ EvaluateParallel
    \/ SelectStep
    \/ Track
    \/ RecombineStep
    \/ TPAStep
    \/ MutateParameters
    \/ RestartCheck

SpecPar == InitPar /\ [][NextPar]_vars

\* ---------------------------------------------------------- customizedES
\* State on entry of customizedES: the requested sizes and options.
InitCES ==
    /\ budget \in {MaxBudget}
    /\ lambda_ \in 1 .. MaxReq
    /\ mu \in 1 .. MaxReq
    /\ sequential \in BOOLEAN
    /\ tpa \in BOOLEAN
    /\ ipop = "None"
    /\ elitist = FALSE
    /\ seq_cutoff = mu
    /\ max_iter = 1
    /\ last_pop = "None"
    /\ parallel = FALSE
    /\ selection \in {"best", "pairwise"}
    /\ pc = "customizedES"
    /\ error = "none"
    /\ used_budget = 0
    /\ used_budget_at_last_restart = 0
    /\ restart_budget = 0
    /\ improvement_found = FALSE
    /\ population = << >>
    /\ new_population = << >>
    /\ best_individual = Inf
    /\ i = Unbound
    /\ it = 0
    /\ sigma_over_time = << >>
    /\ best_fitness_over_time = << >>
    /\ fitness_calls = 0
    /\ generations = 0
    /\ restarts = 0
    /\ gen_flag0 = FALSE
    /\ gen_budget0 = 0
    /\ gen_len0 = 0
    /\ reported = 0

\* the selection == 'pairwise' clamp, up to the call of Parameters(...)
ClampSizes ==
    /\ pc = "customizedES"
    /\ IF selection = "pairwise"
       THEN LET lam == PairwiseLambda(lambda_, tpa)
            IN lambda_' = lam /\ mu' = PairwiseMu(mu, lam, tpa)
       ELSE UNCHANGED <<lambda_, mu>>
    /\ pc' = "Parameters"
    /\ UNCHANGED <<budget, sequential, tpa, ipop, elitist, seq_cutoff, max_iter,
                   last_pop, parallel, selection, error, used_budget,
                   used_budget_at_last_restart, restart_budget, improvement_found,
                   population, new_population, best_individual, i, it,
                   sigma_over_time, best_fitness_over_time, history>>

\* Parameters(...), seq_cutoff, and the initial population of mu individuals
CreatePopulation ==
    /\ pc = "Parameters"
    /\ seq_cutoff' = IF sequential /\ selection = "pairwise" THEN 2 * mu ELSE mu
    /\ population' = Repeat(Inf, mu)
    /\ pc' = "baseAlgorithm"
    /\ UNCHANGED <<budget, lambda_, mu, sequential, tpa, ipop, elitist, max_iter,
                   last_pop, parallel, selection, error, used_budget,
                   used_budget_at_last_restart, restart_budget, improvement_found,
                   new_population, best_individual, i, it, sigma_over_time,
                   best_fitness_over_time, history>>

NextCES == ClampSizes \/ CreatePopulation

SpecCES == InitCES /\ [][NextCES]_vars

\* ================================================================ claims
Returned == pc = "done"
NonIncreasing(t) == \A a, b \in 1 .. Len(t) : a < b => t[b] <= t[a]
\* a restart is the step that increments restarts
RestartTaken == restarts' = restarts + 1

\* C1: in non-parallel mode, when the loop terminates used_budget is at most
\* budget + 2, and at most budget when TPA is disabled.
C1_BudgetBound ==
    (Returned /\ ~parallel) =>
        /\ used_budget <= budget + 2
        /\ (~tpa => used_budget <= budget)

\* C2: over a whole run the fitness function is called at most budget times,
\* offspring evaluations and TPA probes together.
C2_FitnessCallsWithinBudget == fitness_calls <= budget

\* C3: when baseAlgorithm returns, both traces have exactly used_budget entries.
C3_TraceLengths ==
    Returned => /\ Len(sigma_over_time) = used_budget
                /\ Len(best_fitness_over_time) = used_budget

OnePlusOne ==
    lambda_ = 1 /\ mu = 1 /\ ~tpa /\ ipop = "None" /\ ~sequential /\ ~parallel
C5_OnePlusOneBudget ==
    OnePlusOne =>
        /\ pc # "crashed"
        /\ (pc \in {"select", "track"} => used_budget = gen_budget0 + 1)
        /\ (pc \in {"select", "track"} => used_budget = generations)
        /\ (Returned => used_budget = budget /\ generations = budget)

C5_Witness == OnePlusOne /\ Returned /\ budget >= 3 /\ generations = budget

\* C6: sequential, non-parallel, flag cleared at the start of the generation,
\* first improving offspring at 0-based index k, more than max(k, seq_cutoff)
\* offspring and enough budget: exactly max(k, seq_cutoff) + 1 offspring are
\* evaluated and kept.
FirstImproving(s, best) ==
    IF \E k \in 1 .. Len(s) : s[k] < best
    THEN (CHOOSE k \in 1 .. Len(s) :
              s[k] < best /\ \A j \in 1 .. k - 1 : ~(s[j] < best)) - 1
    ELSE -1
C6_Case(k) ==
    /\ pc = "track" /\ sequential /\ ~parallel /\ ~gen_flag0
    /\ k >= 0
    /\ gen_len0 > Max(k, seq_cutoff)
    /\ gen_budget0 + Max(k, seq_cutoff) + 1 <= budget
C7_AlwaysAlternates ==
    [][(RestartTaken /\ ipop = "BIPOP") =>
          /\ (last_pop = "large" => last_pop' = "small")
          /\ (last_pop = "small" => last_pop' = "large")]_vars

\* C7 amended: under BIPOP a restart after 'small' (or the first restart)
\* chooses 'large'; a restart after 'large' chooses 'small' exactly when half
\* of the budget used since the last restart is less than the remaining
\* budget, and 'large' again otherwise.
C7_AlternatesWhileBudgetAllows ==
    [][(RestartTaken /\ ipop = "BIPOP") =>
          LET since == used_budget - used_budget_at_last_restart
          IN /\ (last_pop # "large" => last_pop' = "large")
             /\ (last_pop = "large" /\ since \div 2 < budget - used_budget
                    => last_pop' = "small")
             /\ (last_pop = "large" /\ since \div 2 >= budget - used_budget
                    => last_pop' = "large")]_vars

C7_Witness == ipop = "BIPOP" /\ restarts >= 2 /\ last_pop = "small"

\* C8: every restart sets used_budget_at_last_restart to the current
\* used_budget and leaves used_budget unchanged.
C8_RestartKeepsBudget ==
    [][RestartTaken =>
          /\ used_budget_at_last_restart' = used_budget
          /\ used_budget' = used_budget]_vars

C8_Witness ==
    /\ restarts >= 2 /\ last_pop = "small"
    /\ used_budget_at_last_restart = used_budget /\ used_budget > 0

\* C9: with selection = 'pairwise' the sizes handed to Parameters satisfy:
\* lambda even and >= 2 (>= 4 with two-point), 1 <= mu <= (lambda - 2*tp) \div 2,
\* and no individual exists before the adjustment.
C9_PairwiseSizes ==
    /\ (pc = "customizedES" => population = << >>)
    /\ (selection = "pairwise" /\ pc # "customizedES") =>
          /\ lambda_ % 2 = 0
          /\ lambda_ >= 2
          /\ (tpa => lambda_ >= 4)
          /\ 1 <= mu
          /\ mu <= (lambda_ - (IF tpa THEN 2 ELSE 0)) \div 2

C9_Witness ==
    /\ pc = "baseAlgorithm" /\ selection = "pairwise" /\ ~tpa
    /\ lambda_ = 6 /\ mu = 3 /\ Len(population) = 3

\* C10: a selected population whose size differs from mu (empty included)
\* never aborts the run.
C10_MismatchNotFatal == Len(population) # mu => pc # "crashed"

C13_ParallelDisablesSequential ==
    (parallel /\ sequential /\ pc = "track") =>
        /\ Len(new_population) = gen_len0
        /\ used_budget = gen_budget0 + lambda_

\* C14: sequential evaluation, an improving offspring among the first
\* seq_cutoff offspring of a generation with more offspring and budget left:
\* exactly seq_cutoff offspring are evaluated and kept, and the flag is cleared.
C14_StopsAtCutoff ==
    LET k == FirstImproving(new_population, best_individual)
    IN (/\ pc = "track" /\ sequential /\ ~parallel
        /\ k >= 0 /\ k < seq_cutoff
        /\ gen_len0 > seq_cutoff
        /\ gen_budget0 + seq_cutoff + 1 <= budget) =>
           /\ Len(new_population) = seq_cutoff
           /\ used_budget - gen_budget0 = seq_cutoff
           /\ ~improvement_found

\* C15: in sequential non-parallel mode used_budget never exceeds budget, and
\* a run that returns does so with used_budget = budget.
C15_SequentialWithinBudget ==
    (sequential /\ ~parallel) =>
        /\ used_budget <= budget
        /\ (Returned => used_budget = budget)

C15_Witness ==
    /\ Returned /\ sequential /\ ~parallel /\ tpa
    /\ used_budget = budget /\ fitness_calls = budget + 1

\* C16 as stated: recombination is entered only after the restart check, that
\* is after parameter adaptation and the TPA probe of the same generation.
C16_RecombineAfterAdapt ==
    [][(pc # "recombine" /\ pc' = "recombine") => pc = "restart"]_vars

\* C16 amended: after selection the phases run in the order tracking (with the
\* budget test), recombination, TPA probe, parameter adaptation, restart
\* check, and then the next generation's evaluation.
C16_PhaseOrder ==
    [][/\ (pc = "select" => pc' \in {"select", "track", "crashed"})
       /\ (pc = "track" => pc' \in {"track", "recombine", "done", "crashed"})
       /\ (pc = "recombine" => pc' \in {"recombine", "tpa"})
       /\ (pc = "tpa" => pc' \in {"tpa", "adapt"})
       /\ (pc = "adapt" => pc' \in {"adapt", "restart"})
       /\ (pc = "restart" => pc' \in {"restart", "while"})
       /\ (pc' = "recombine" => pc \in {"recombine", "track"})]_vars

C16_Witness ==
    /\ pc = "while" /\ tpa /\ generations >= 1 /\ reported = 0
    /\ fitness_calls >= 3 /\ Len(new_population) = lambda_

\* C17: on a restart that grows the population the new restart_budget is
\* max_iter times the lambda in effect after the restart.
C17_RestartBudgetUsesNewLambda ==
    [][(RestartTaken /\ last_pop' = "large") =>
          restart_budget' = max_iter * lambda_']_vars

\* C18 as stated: used_budget, used_budget_at_last_restart and restart_budget
\* never decrease.
C18_AllNonDecreasing ==
    [][/\ used_budget' >= used_budget
       /\ used_budget_at_last_restart' >= used_budget_at_last_restart
       /\ restart_budget' >= restart_budget]_vars

\* C18 amended: used_budget and used_budget_at_last_restart never decrease
\* under any restart mode; restart_budget never decreases with restarts off
\* or under IPOP, and under BIPOP it decreases only at a restart.
C18_NonDecreasingExceptBipopRestart ==
    [][/\ used_budget' >= used_budget
       /\ used_budget_at_last_restart' >= used_budget_at_last_restart
       /\ (restart_budget' < restart_budget => ipop = "BIPOP" /\ RestartTaken)]_vars

C18_Witness ==
    /\ ipop = "BIPOP" /\ last_pop = "small" /\ restart_budget < max_iter
    /\ used_budget_at_last_restart > 0

\* C19: the loop always reaches used_budget >= budget and returns; while
\* select returns non-empty populations the run never ends in any other way.
C19_OnlyEndsByReturning == pc = "crashed" => Len(population) = 0

SequentialPathIsTheLoop ==
    (~parallel /\ sequential /\ pc = "select" /\ gen_len0 > 0) =>
        LET r == SequentialPath(new_population, 0, gen_budget0, gen_flag0,
                                best_individual, seq_cutoff, budget)
        IN /\ used_budget = r.used_budget
           /\ i = r.i
           /\ improvement_found = r.improvement_found

\* C11: at every point of a run the best-so-far individual is a snapshot of
\* its own: it is no object of the parent population or the offspring list,
\* and its dna array is the dna array of none of them.
C11_BestIsSnapshot ==
    \A k \in DOMAIN (population \o new_population) :
        /\ (population \o new_population)[k].obj # best_individual.obj
        /\ (population \o new_population)[k].dna # best_individual.dna

\* once the best-so-far has been replaced by a copy it is a snapshot of its own
BestIsSnapshotOnceCopied ==
    (generations >= 1 /\ pc # "crashed") => C11_BestIsSnapshot

\* C21: with sequential evaluation every generation's evaluation phase starts
\* with improvement_found cleared, also in generations whose offspring list
\* is not longer than seq_cutoff.
C21_FlagClearedAtGenerationStart ==
    (sequential /\ ~parallel /\ pc = "eval" /\ it = 0) => ~improvement_found

\* C22: when an offspring is about to be mutated, no other individual (parent,
\* offspring or the best-so-far) has its dna attribute bound to the same
\* array, also for the offspring a restart placed at the new search point.
C22_MutatedDnaNotShared ==
    (pc = "eval" /\ i + 1 < Len(new_population)) =>
        LET offspring == new_population[i + 2]
            others    == population \o new_population \o <<best_individual>>
        IN \A k \in DOMAIN others :
               others[k].obj # offspring.obj => others[k].dna # offspring.dna

====
